---- MODULE Spec2Model ----
(***************************************************************************)
(* A model of carlosb::object_pool (src/src/object_pool.hpp): the pool     *)
(* core (object_pool::impl), the acquisition handle (acquired_object),     *)
(* its deleter, and the front-end handle (object_pool).                    *)
(*                                                                         *)
(* Pointers are the naturals 1..heap in the order the allocator hands them *)
(* out.  Every member function of impl other than acquire_wait runs under  *)
(* one lock_guard on m_pool_mutex from its first to its last statement, so *)
(* it is one atomic action; acquire_wait is split where it releases the    *)
(* mutex (inside the condition variable's wait, and at pool_lock.unlock()).*)
(***************************************************************************)
EXTENDS Integers, Sequences, FiniteSets, TLC

\* ------------------------------------------------------------------ bounds
NumThreads == 2      \* threads that may call acquire_wait
NumHandles == 2      \* acquired_object variables of the program
MaxPtrs == 4         \* allocations the allocator can serve
MaxCount == 2        \* largest count / new_cap argument tried
MaxOps == 4          \* calls of the pool's interface the program makes

Threads == 1..NumThreads
Handles == 1..NumHandles

\* ------------------------------------------------------------- constants
NULL == 0                    \* nullptr
INDET == 0 - 1               \* the indeterminate value of an uninitialized _Tp*
WILD == MaxPtrs + 1          \* an address that is no allocation of the pool
This == 1                    \* the impl that `pool` models, *this of impl::swap
Other == 2                   \* the impl that `other_pool` models, the argument of swap
Cores == {This, Other}
NoCount == 0 - 1             \* stands for the count of a pool constructed without one
LogicError == 0 - 2          \* stands for the std::logic_error operator* and -> throw
DefaultCapacity == 4         \* m_capacity(4) of impl(const _Allocator&)
SizeBits == 30               \* width kept for size_type arithmetic: the widest the
                             \*   checker's integers allow; wrap-around is what matters
SizeModulus == 2 ^ SizeBits

VARIABLES
    pool,        \* the impl object: m_managed_count, m_capacity,
                 \*   m_allocated_space, m_free_objects
    impl_alive,  \* the impl object has not been destructed
    frontends,   \* number of object_pool values whose m_pool is this impl
    heap,        \* number of allocations made by m_allocator so far
    handles,     \* the acquired_object variables
    pc,          \* per thread: position inside acquire_wait
    timed,       \* per thread: the running acquire_wait has time_limit > 0
    expired,     \* per thread: the deadline of the running wait_for has passed
    avail,       \* per thread (history): the running call saw a free object
                 \*   under the lock while its deadline had not passed
    waited,      \* per thread (history): the running call has blocked
    ub,          \* undefined behaviour has been executed
    crashed,     \* an execution of undefined behaviour ended the process
    ops,         \* number of calls made so far
    lent,        \* per address (history): times it was handed to a handle minus
                 \*   times it went through return_object
    other_pool,  \* a second impl object, the argument of swap
    mutex,       \* per impl: the thread that holds m_pool_mutex, 0 if none
    swpc,        \* per thread: position inside impl::swap
    swarg,       \* per thread: the impls <<this, other>> of its running swap
    snap,        \* (history) the constructor argument, and what size(),
                 \*   managed_count and capacity() were before the last acquire
    slots,       \* (history) number of slots the constructor, reserve and
                 \*   reallocate got from the allocator
    owned,       \* per acquired_object variable (history): the object it was
                 \*   given and has not given up, NULL if it owns none
    result       \* (history) what the last operator* / operator-> did

vars == <<pool, impl_alive, frontends, heap, handles, pc, timed, expired,
          avail, waited, ub, crashed, ops, lent, other_pool, mutex, swpc, swarg,
          snap, slots, owned, result>>

\* the second pool and the running swaps
swapvars == <<other_pool, mutex, swpc, swarg>>

\* the histories kept for single scenarios
\* the history of the acquired_object variables
handlehist == <<owned, result>>

histvars == <<snap, slots, handlehist>>

\* what the operations on one pool and its handles leave alone
xvars == <<swapvars, histvars>>

waitvars == <<timed, expired, avail, waited>>
corevars == <<impl_alive, frontends>>
ubvars == <<ub, crashed>>

\* ---------------------------------------------------------------- stacks
\* std::stack<_Tp*>: the top is the last element.  top() of an empty stack
\* is undefined; the value it yields is the caller's parameter g.
StackTop(s, g) == IF Len(s) = 0 THEN g ELSE s[Len(s)]
StackPop(s) == IF Len(s) = 0 THEN s ELSE SubSeq(s, 1, Len(s) - 1)
StackPush(s, x) == Append(s, x)

\* the pointers allocate(1) returns for n successive calls after hp calls
Fresh(hp, n) == [i \in 1..n |-> hp + i]

\* every address a handle can hold
Ptrs == 1..WILD

\* values an undefined top() may yield: any address, of the pool or not
Garbage == Ptrs

\* ------------------------------------------------------------------ impl
\* impl(const _Allocator&)
ImplDefault(hp) ==
    [m_managed_count |-> 0,
     m_capacity |-> DefaultCapacity,
     m_allocated_space |-> Fresh(hp, DefaultCapacity),
     m_free_objects |-> <<>>]

\* impl(size_type count, const _Tp& value, alloc) and impl(size_type count, alloc)
ImplCount(count, hp) ==
    [m_managed_count |-> count,
     m_capacity |-> count,
     m_allocated_space |-> <<>>,
     m_free_objects |-> Fresh(hp, count)]

\* number of allocate(1) calls reallocate(new_cap) makes
ReallocateCalls(p, new_cap) ==
    IF new_cap > p.m_capacity THEN new_cap - p.m_capacity ELSE 0

\* impl::reallocate
Reallocate(p, hp, new_cap) ==
    [p EXCEPT !.m_allocated_space = @ \o Fresh(hp, ReallocateCalls(p, new_cap)),
              !.m_capacity = new_cap]

\* mutant: a reallocate that fails counts the slot it did not get
ReallocateThrowsCounted(p, hp, k) ==
    [p EXCEPT !.m_allocated_space = @ \o Fresh(hp, k),
              !.m_capacity = @ + k + 1]

\* impl::reallocate, and the loop of impl::reserve, when m_allocator.allocate
\* throws after k slots were pushed: m_capacity = new_cap is not reached
ReallocateThrows(p, hp, k) ==
    [p EXCEPT !.m_allocated_space = @ \o Fresh(hp, k)]

\* mutant: reserve reallocates without comparing new_cap with m_capacity
ReserveUnguarded(p, hp, new_cap) == Reallocate(p, hp, new_cap)

\* impl::reserve
Reserve(p, hp, new_cap) ==
    IF new_cap > p.m_capacity THEN Reallocate(p, hp, new_cap) ELSE p

\* impl::size
Size(p) == Len(p.m_free_objects)

\* impl::capacity
Capacity(p) == p.m_capacity

\* impl::managed_count
ManagedCount(p) == p.m_managed_count

\* impl::empty
Empty(p) == p.m_free_objects = <<>>

\* size_type subtraction
SizeSub(a, b) == (a - b) % SizeModulus

\* mutant: in_use never reports a lent object
InUseNever(p) == FALSE

\* impl::in_use
InUse(p) == SizeSub(p.m_managed_count, Size(p)) > 0

\* mutant: acquire leaves the object it hands out on the free list
PopFreeKept(p) == p

\* impl::acquire, and the else branch of impl::allocate: the pool after the pop
PopFree(p) == [p EXCEPT !.m_free_objects = StackPop(@)]

\* mutant: allocate does not count the object it constructs
AllocateNewUncounted(p) == p

\* impl::allocate, the branch taken on an empty free list
AllocateNew(p) == [p EXCEPT !.m_managed_count = @ + 1]

\* the pool as push / emplace see it after their reallocate
PushGrown(p, hp) ==
    IF p.m_managed_count = p.m_capacity
        THEN Reallocate(p, hp, p.m_capacity * 2)
        ELSE p

\* push / emplace take a slot from an empty m_allocated_space
PushUnderflows(p, hp) == PushGrown(p, hp).m_allocated_space = <<>>

\* impl::push (both overloads) and impl::emplace
Push(p, hp, g) ==
    LET q == PushGrown(p, hp)
        obj == StackTop(q.m_allocated_space, g)
    IN  [q EXCEPT !.m_allocated_space = StackPop(@),
                  !.m_free_objects = StackPush(@, obj),
                  !.m_managed_count = @ + 1]

\* the pool as resize sees it after its reallocate
ResizeGrown(p, hp, count) ==
    IF count > Size(p) /\ count > p.m_capacity
        THEN Reallocate(p, hp, count)
        ELSE p

\* the grow loop of resize, n iterations
RECURSIVE GrowLoop(_, _, _)
GrowLoop(p, n, g) ==
    IF n = 0 THEN p
    ELSE GrowLoop([p EXCEPT !.m_allocated_space = StackPop(@),
                            !.m_free_objects =
                                StackPush(@, StackTop(p.m_allocated_space, g))],
                  n - 1, g)

\* the shrink loop of resize, n iterations
RECURSIVE ShrinkLoop(_, _)
ShrinkLoop(p, n) ==
    IF n = 0 THEN p
    ELSE ShrinkLoop([p EXCEPT !.m_allocated_space =
                                  StackPush(@, StackTop(p.m_free_objects, WILD)),
                              !.m_free_objects = StackPop(@)],
                    n - 1)

\* resize takes a slot from an empty m_allocated_space
ResizeUnderflows(p, hp, count) ==
    /\ count > Size(p)
    /\ count - Size(p) > Len(ResizeGrown(p, hp, count).m_allocated_space)

\* impl::resize (both overloads)
Resize(p, hp, count, g) ==
    LET size == Size(p)
        q == IF count > size
                THEN GrowLoop(ResizeGrown(p, hp, count), count - size, g)
                ELSE ShrinkLoop(p, size - count)
    IN  [q EXCEPT !.m_managed_count = count]

\* mutant: return_object drops the object
ReturnObjectDropped(p, obj) == p

\* impl::return_object
ReturnObject(p, obj) == [p EXCEPT !.m_free_objects = StackPush(@, obj)]

\* impl::~impl
DestroyImpl(p) == [p EXCEPT !.m_free_objects = <<>>, !.m_allocated_space = <<>>]

\* mutant: the untimed wait returns on any wake-up
UntimedPredAnyWake(p) == TRUE

\* the wait predicate of the untimed branch of acquire_wait
UntimedPred(p) == ~Empty(p)

\* the wait predicate of the timed branch of acquire_wait
TimedPred(p) == Empty(p)

\* ------------------------------------------------------- acquired_object
\* a variable that holds no acquired_object (not constructed, or destructed)
NoHandle ==
    [live |-> FALSE, m_obj |-> NULL, m_pool |-> FALSE, m_is_initialized |-> FALSE]

\* acquired_object(), acquired_object(none_t), acquired_object(nullptr_t)
EmptyHandle ==
    [live |-> TRUE, m_obj |-> INDET, m_pool |-> FALSE, m_is_initialized |-> FALSE]

\* acquired_object(_Tp* obj, std::shared_ptr<impl> lender)
OwningHandle(obj) ==
    [live |-> TRUE, m_obj |-> obj, m_pool |-> TRUE, m_is_initialized |-> TRUE]

\* acquired_object(acquired_object&& other): the new object
MoveCtorNew(other) ==
    [live |-> TRUE, m_obj |-> other.m_obj, m_pool |-> other.m_pool,
     m_is_initialized |-> other.m_is_initialized]

\* mutant: the move constructor leaves other as it was
MoveCtorOtherKept(other) == other

\* acquired_object(acquired_object&& other): what is left of other
MoveCtorOther(other) ==
    [other EXCEPT !.m_obj = NULL, !.m_pool = FALSE, !.m_is_initialized = FALSE]

\* operator=(acquired_object&& other) after its deleter call, statement by
\* statement on the variables a (this) and b (other), which may be the same
MoveAssignFields(hs, a, b) ==
    LET h1 == [hs EXCEPT ![a].m_obj = hs[b].m_obj]
        h2 == [h1 EXCEPT ![a].m_is_initialized = h1[b].m_is_initialized]
        h3 == [h2 EXCEPT ![b].m_obj = NULL]
        h4 == [h3 EXCEPT ![b].m_is_initialized = FALSE]
    IN  IF a = b THEN h4
        ELSE [h4 EXCEPT ![a].m_pool = h4[b].m_pool, ![b].m_pool = FALSE]

\* operator=(none_t) after its deleter call
AssignNoneFields(h) ==
    [h EXCEPT !.m_obj = NULL, !.m_pool = FALSE, !.m_is_initialized = FALSE]

\* the tests deleter::operator() and its callers make before return_object:
\* m_is_initialized, ptr, and m_pool_ptr.lock()
DeleterReturns(h, alive) ==
    h.m_is_initialized /\ h.m_obj # NULL /\ h.m_pool /\ alive

\* operator==(none_t)
IsNone(h) == ~h.m_is_initialized

\* mutant: operator* and operator-> hand out m_obj without a test
DerefUnchecked(h) == h.m_obj

\* operator* and operator->: the object they yield, or the exception
Deref(h) == IF ~h.m_is_initialized THEN LogicError ELSE h.m_obj

\* ------------------------------------------------------------- observers
\* the acquired_object variables that own an object
Owners == {h \in Handles : handles[h].live /\ handles[h].m_is_initialized}

\* the variables that own the object obj
OwnersOf(obj) == {h \in Owners : handles[h].m_obj = obj}

\* strong references to the impl: front-end handles and acquired_objects
UseCount(hs, fe) ==
    fe + Cardinality({h \in Handles : hs[h].live /\ hs[h].m_pool})

\* the threads blocked inside the condition variable
Blocked == {t \in Threads : pc[t] = "blocked"}

\* mutant: notify_one is never called
NotifyNobody == {0}

\* the thread notify_one wakes: one of the blocked threads, 0 if there is none
NotifyChoices == IF Blocked = {} THEN {0} ELSE Blocked

\* mutant: the notification reaches no waiter
NotifiedLost(pcs, w) == pcs

\* pc after notify_one woke w
Notified(pcs, w) == IF w = 0 THEN pcs ELSE [pcs EXCEPT ![w] = "woken"]

\* the program makes one more call
Call == ~crashed /\ ops < MaxOps /\ ops' = ops + 1

\* the history after obj was handed to a handle
HandedOut(obj) == [lent EXCEPT ![obj] = @ + 1]

\* the history after obj (NULL: none) went through return_object
HandedBack(obj) == IF obj = NULL THEN lent ELSE [lent EXCEPT ![obj] = @ - 1]

\* a pool operation is called: the process runs and a front-end exists
Callable == Call /\ impl_alive /\ frontends > 0

\* the variable h may be used by the program: no call of its thread is running
Usable(h) == h \in Threads => pc[h] = "idle"

\* ------------------------------------------------------------------ Init
InitPools ==
    {ImplDefault(0)} \cup {ImplCount(n, 0) : n \in 0..MaxCount}

\* number of allocations the construction of the pool p made
Allocations(p) == Len(p.m_allocated_space) + Len(p.m_free_objects)

\* the program after the construction of the pool p, hp allocations made
InitCore(p, hp) ==
    /\ pool = p
    /\ heap = hp
    /\ impl_alive = TRUE
    /\ frontends = 1
    /\ handles = [h \in Handles |-> NoHandle]
    /\ pc = [t \in Threads |-> "idle"]
    /\ timed = [t \in Threads |-> FALSE]
    /\ expired = [t \in Threads |-> FALSE]
    /\ avail = [t \in Threads |-> FALSE]
    /\ waited = [t \in Threads |-> FALSE]
    /\ ub = FALSE
    /\ crashed = FALSE
    /\ ops = 0
    /\ lent = [obj \in Ptrs |-> 0]

\* the program after the construction of the pool p
InitWith(p) == InitCore(p, Allocations(p))

\* the history of a program that records none
NoSnap ==
    [stage |-> "other", count |-> NoCount, fresh |-> FALSE, h |-> 0,
     size |-> 0, managed_count |-> 0, capacity |-> 0]

\* a program with one pool: no second impl is used and no swap is running
InitNoSwap ==
    /\ other_pool = ImplCount(0, 0)
    /\ mutex = [c \in Cores |-> 0]
    /\ swpc = [t \in Threads |-> "idle"]
    /\ swarg = [t \in Threads |-> <<This, This>>]

\* no acquired_object exists and none was dereferenced
InitHandleHist ==
    /\ owned = [h \in Handles |-> NULL]
    /\ result = [empty |-> FALSE, value |-> NULL]

\* a program with one pool that keeps no history
InitExtra ==
    /\ InitNoSwap
    /\ snap = NoSnap
    /\ slots = 0
    /\ InitHandleHist

Init == (\E p \in InitPools : InitWith(p)) /\ InitExtra

\* --------------------------------------------------- shared_ptr<impl>
\* The effect of a step on the acquired_object variables: they become hs, the
\* object ret (NULL: none) goes through impl::return_object, which wakes one
\* waiter, and the impl is destructed when its last strong reference is gone.
HandleStep(hs, fe, ret) ==
    /\ handles' = hs
    /\ frontends' = fe
    /\ impl_alive' = (impl_alive /\ UseCount(hs, fe) > 0)
    /\ \E w \in (IF ret = NULL THEN {0} ELSE NotifyChoices) :
        LET p1 == IF ret = NULL THEN pool ELSE ReturnObject(pool, ret)
        IN  /\ pool' = IF impl_alive /\ ~impl_alive' THEN DestroyImpl(p1) ELSE p1
            /\ pc' = Notified(pc, w)
    /\ lent' = HandedBack(ret)
    /\ UNCHANGED <<heap, waitvars, ubvars>>

\* the object the deleter call of a member function of h returns, NULL if none
Released(h) ==
    IF DeleterReturns(handles[h], impl_alive) THEN handles[h].m_obj ELSE NULL

\* ~acquired_object
Destroy(h) ==
    /\ Call /\ handles[h].live /\ Usable(h)
    /\ HandleStep([handles EXCEPT ![h] = NoHandle], frontends, Released(h))

\* acquired_object::operator=(none_t)
AssignNone(h) ==
    /\ Call /\ handles[h].live /\ Usable(h)
    /\ HandleStep([handles EXCEPT ![h] = AssignNoneFields(@)], frontends,
                  Released(h))

\* acquired_object::operator=(acquired_object&&), a = std::move(b)
MoveAssign(a, b) ==
    /\ Call /\ handles[a].live /\ handles[b].live /\ Usable(a) /\ Usable(b)
    /\ HandleStep(MoveAssignFields(handles, a, b), frontends, Released(a))

\* acquired_object(acquired_object&&), a constructed from std::move(b)
MoveConstruct(a, b) ==
    /\ Call /\ ~handles[a].live /\ handles[b].live /\ Usable(a) /\ Usable(b)
    /\ HandleStep([handles EXCEPT ![a] = MoveCtorNew(handles[b]),
                                  ![b] = MoveCtorOther(handles[b])],
                  frontends, NULL)

\* acquired_object()
DefaultConstruct(h) ==
    /\ Call /\ ~handles[h].live /\ Usable(h)
    /\ HandleStep([handles EXCEPT ![h] = EmptyHandle], frontends, NULL)

\* object_pool(const object_pool&)
CopyPool ==
    /\ Call /\ frontends > 0
    /\ HandleStep(handles, frontends + 1, NULL)

\* ~object_pool: no thread is inside a call made through the last front-end
DropPool ==
    /\ Call /\ frontends > 0
    /\ frontends > 1 \/ \A t \in Threads : pc[t] = "idle"
    /\ HandleStep(handles, frontends - 1, NULL)

\* ------------------------------------------------------- pool operations
\* the handle acquire / allocate return for a pool with a free object
Acquired(p) == MoveCtorNew(OwningHandle(StackTop(p.m_free_objects, WILD)))

\* impl::acquire, auto h = pool.acquire()
Acquire(h) ==
    /\ Callable /\ ~handles[h].live /\ Usable(h)
    /\ IF Empty(pool)
          THEN /\ handles' = [handles EXCEPT ![h] = MoveCtorNew(EmptyHandle)]
               /\ UNCHANGED <<pool, lent>>
          ELSE /\ handles' = [handles EXCEPT ![h] = Acquired(pool)]
               /\ pool' = PopFree(pool)
               /\ lent' = HandedOut(Acquired(pool).m_obj)
    /\ UNCHANGED <<corevars, heap, pc, waitvars, ubvars>>

\* impl::allocate, auto h = pool.allocate(args...)
Allocate(h) ==
    /\ Callable /\ ~handles[h].live /\ Usable(h)
    /\ IF Empty(pool)
          THEN /\ heap < MaxPtrs
               /\ handles' = [handles EXCEPT ![h] = OwningHandle(heap + 1)]
               /\ pool' = AllocateNew(pool)
               /\ heap' = heap + 1
               /\ lent' = HandedOut(heap + 1)
          ELSE /\ handles' = [handles EXCEPT ![h] = Acquired(pool)]
               /\ pool' = PopFree(pool)
               /\ heap' = heap
               /\ lent' = HandedOut(Acquired(pool).m_obj)
    /\ UNCHANGED <<corevars, pc, waitvars, ubvars>>

\* the process ends at an execution of undefined behaviour
Crash ==
    /\ crashed' = TRUE
    /\ UNCHANGED <<pool, heap, pc>>

\* the effect of push / emplace, g being what top() of an empty stack yields
PushEffect(g) ==
    /\ pool' = Push(pool, heap, g)
    /\ heap' = heap + ReallocateCalls(pool, PushGrown(pool, heap).m_capacity)
    /\ \E w \in NotifyChoices : pc' = Notified(pc, w)

\* impl::push(const_reference), impl::push(rv_reference) and impl::emplace:
\* the three bodies differ only in how the new object is constructed.  A
\* call that takes a slot from an empty stack executes undefined behaviour:
\* it ends the process or goes on with a garbage pointer.
PushAction ==
    /\ Callable
    /\ heap + ReallocateCalls(pool, PushGrown(pool, heap).m_capacity) <= MaxPtrs
    /\ IF PushUnderflows(pool, heap)
          THEN /\ ub' = TRUE
               /\ \/ Crash
                  \/ crashed' = FALSE /\ \E g \in Garbage : PushEffect(g)
          ELSE /\ PushEffect(WILD)
               /\ UNCHANGED ubvars
    /\ UNCHANGED <<corevars, handles, waitvars, lent>>

\* the effect of resize, g being what top() of an empty stack yields
ResizeEffect(count, g) ==
    /\ pool' = Resize(pool, heap, count, g)
    /\ heap' = heap + ReallocateCalls(pool,
                          ResizeGrown(pool, heap, count).m_capacity)
    /\ pc' = pc

\* impl::resize(count) and impl::resize(count, value): the two bodies differ
\* only in how the new objects are constructed
ResizeAction(count) ==
    /\ Callable
    /\ heap + ReallocateCalls(pool, ResizeGrown(pool, heap, count).m_capacity)
           <= MaxPtrs
    /\ IF ResizeUnderflows(pool, heap, count)
          THEN /\ ub' = TRUE
               /\ \/ Crash
                  \/ crashed' = FALSE /\ \E g \in Garbage : ResizeEffect(count, g)
          ELSE /\ ResizeEffect(count, WILD)
               /\ UNCHANGED ubvars
    /\ UNCHANGED <<corevars, handles, waitvars, lent>>

\* impl::reserve
ReserveAction(new_cap) ==
    /\ Callable
    /\ heap + ReallocateCalls(pool, new_cap) <= MaxPtrs
    /\ pool' = Reserve(pool, heap, new_cap)
    /\ heap' = heap + ReallocateCalls(pool, new_cap)
    /\ UNCHANGED <<corevars, handles, pc, waitvars, ubvars, lent>>

\* ---------------------------------------------------------- acquire_wait
\* obj = acquired_object(m_free_objects.top(), shared_from_this()) on the
\* local obj of acquire_wait, which is default-constructed
LocalAcquired(p) ==
    MoveAssignFields(<<EmptyHandle, OwningHandle(StackTop(p.m_free_objects, WILD))>>,
                     1, 2)[1]

\* obj = none on the local obj of acquire_wait
LocalNone == AssignNoneFields(EmptyHandle)

\* acquire_wait pops the top of the free list into its local obj and unlocks
TakeObject(t) ==
    /\ handles' = [handles EXCEPT ![t] = LocalAcquired(pool)]
    /\ pool' = PopFree(pool)
    /\ lent' = HandedOut(LocalAcquired(pool).m_obj)
    /\ pc' = [pc EXCEPT ![t] = "notify"]

\* acquire_wait sets its local obj to none and unlocks
TakeNone(t) ==
    /\ handles' = [handles EXCEPT ![t] = LocalNone]
    /\ pc' = [pc EXCEPT ![t] = "notify"]
    /\ UNCHANGED <<pool, lent>>

\* acquire_wait releases the mutex inside the condition variable's wait
Block(t) ==
    /\ pc' = [pc EXCEPT ![t] = "blocked"]
    /\ UNCHANGED <<handles, pool, lent>>

\* acquire_wait(time_limit == 0) up to the first time it releases the mutex
AcquireWaitUntimed(t) ==
    /\ Callable /\ pc[t] = "idle" /\ ~handles[t].live
    /\ timed' = [timed EXCEPT ![t] = FALSE]
    /\ expired' = [expired EXCEPT ![t] = FALSE]
    /\ avail' = [avail EXCEPT ![t] = FALSE]
    /\ IF UntimedPred(pool)
          THEN TakeObject(t) /\ waited' = [waited EXCEPT ![t] = FALSE]
          ELSE Block(t) /\ waited' = [waited EXCEPT ![t] = TRUE]
    /\ UNCHANGED <<corevars, heap, ubvars>>

\* acquire_wait(time_limit > 0) up to the first time it releases the mutex
AcquireWaitTimed(t) ==
    /\ Callable /\ pc[t] = "idle" /\ ~handles[t].live
    /\ timed' = [timed EXCEPT ![t] = TRUE]
    /\ expired' = [expired EXCEPT ![t] = FALSE]
    /\ IF TimedPred(pool)
          THEN /\ TakeNone(t)
               /\ avail' = [avail EXCEPT ![t] = FALSE]
               /\ waited' = [waited EXCEPT ![t] = FALSE]
          ELSE /\ Block(t)
               /\ avail' = [avail EXCEPT ![t] = TRUE]
               /\ waited' = [waited EXCEPT ![t] = TRUE]
    /\ UNCHANGED <<corevars, heap, ubvars>>

\* a spurious wake-up of the condition variable
SpuriousWake(t) ==
    /\ ~crashed /\ pc[t] = "blocked"
    /\ pc' = [pc EXCEPT ![t] = "woken"]
    /\ UNCHANGED <<pool, corevars, heap, handles, waitvars, ubvars, ops, lent>>

\* the deadline of wait_for passes
Expire(t) ==
    /\ ~crashed /\ pc[t] \in {"blocked", "woken"} /\ timed[t] /\ ~expired[t]
    /\ expired' = [expired EXCEPT ![t] = TRUE]
    /\ pc' = [pc EXCEPT ![t] = "woken"]
    /\ UNCHANGED <<pool, corevars, heap, handles, timed, avail, waited, ubvars,
                   ops, lent>>

\* a woken waiter has the mutex again and evaluates its wait: the untimed
\* wait(lock, pred) returns once pred holds; wait_for(lock, time_limit, pred)
\* returns true once pred holds and returns pred() once the deadline passed
Recheck(t) ==
    /\ ~crashed /\ pc[t] = "woken"
    /\ IF ~timed[t]
          THEN /\ IF UntimedPred(pool) THEN TakeObject(t) ELSE Block(t)
               /\ avail' = avail
          ELSE IF TimedPred(pool)
                  THEN TakeNone(t) /\ avail' = avail
                  ELSE IF expired[t]
                          THEN TakeObject(t) /\ avail' = avail
                          ELSE Block(t) /\ avail' = [avail EXCEPT ![t] = TRUE]
    /\ UNCHANGED <<corevars, heap, timed, expired, waited, ubvars, ops>>

\* pool_lock.unlock(); m_objects_availabe.notify_one(); return std::move(obj)
NotifyReturn(t) ==
    /\ ~crashed /\ pc[t] = "notify"
    /\ \E w \in NotifyChoices :
           pc' = [Notified(pc, w) EXCEPT ![t] = "idle"]
    /\ handles' = [handles EXCEPT ![t] = MoveCtorNew(@)]
    /\ timed' = [timed EXCEPT ![t] = FALSE]
    /\ expired' = [expired EXCEPT ![t] = FALSE]
    /\ avail' = [avail EXCEPT ![t] = FALSE]
    /\ waited' = [waited EXCEPT ![t] = FALSE]
    /\ UNCHANGED <<pool, corevars, heap, ubvars, ops, lent>>

\* ------------------------------------------------------------------ swap
\* the impl object c
CoreOf(c) == IF c = This THEN pool ELSE other_pool

\* the members impl::swap exchanges: p with those of q (m_allocated_space is
\* not among them; m_allocator is stateless)
SwapFields(p, q) ==
    [p EXCEPT !.m_managed_count = q.m_managed_count,
              !.m_capacity = q.m_capacity,
              !.m_free_objects = q.m_free_objects]

\* object_pool::swap, impl::swap up to scoped_lock_type lock_this: thread t
\* calls a.swap(b) and holds a's mutex
SwapLockThis(t, a, b) ==
    /\ Callable /\ pc[t] = "idle" /\ swpc[t] = "idle"
    /\ mutex[a] = 0
    /\ mutex' = [mutex EXCEPT ![a] = t]
    /\ swpc' = [swpc EXCEPT ![t] = "locked_this"]
    /\ swarg' = [swarg EXCEPT ![t] = <<a, b>>]
    /\ UNCHANGED <<pool, other_pool, corevars, heap, handles, pc, waitvars,
                   ubvars, lent, histvars>>

\* impl::swap from scoped_lock_type lock_other to its end, on two impls:
\* other's mutex is free, the members are exchanged, both locks are released
SwapLockOther(t) ==
    /\ ~crashed /\ swpc[t] = "locked_this"
    /\ swarg[t][1] # swarg[t][2]
    /\ mutex[swarg[t][2]] = 0
    /\ pool' = SwapFields(pool, other_pool)
    /\ other_pool' = SwapFields(other_pool, pool)
    /\ mutex' = [mutex EXCEPT ![swarg[t][1]] = 0]
    /\ swpc' = [swpc EXCEPT ![t] = "idle"]
    /\ UNCHANGED <<swarg, corevars, heap, handles, pc, waitvars, ubvars, ops,
                   lent, histvars>>

\* impl::swap at scoped_lock_type lock_other when other is *this (two
\* front-end handles of one core, or a.swap(a)): the thread locks a std::mutex
\* it owns, which is undefined.  The call never returns, or the process ends,
\* or lock() throws and the call ends without a swap.
SwapSelfLock(t) ==
    /\ ~crashed /\ swpc[t] = "locked_this"
    /\ swarg[t][1] = swarg[t][2]
    /\ ub' = TRUE
    /\ \/ crashed' = FALSE /\ swpc' = [swpc EXCEPT ![t] = "hung"] /\ mutex' = mutex
       \/ crashed' = TRUE /\ UNCHANGED <<swpc, mutex>>
       \/ /\ crashed' = FALSE
          /\ swpc' = [swpc EXCEPT ![t] = "idle"]
          /\ mutex' = [mutex EXCEPT ![swarg[t][1]] = 0]
    /\ UNCHANGED <<pool, other_pool, swarg, corevars, heap, handles, pc, waitvars,
                   ops, lent, histvars>>

\* ------------------------------------------------------------------ Next
Next ==
    \/ \E h \in Handles : Acquire(h) /\ UNCHANGED xvars
    \/ \E h \in Handles : Allocate(h) /\ UNCHANGED xvars
    \/ PushAction /\ UNCHANGED xvars
    \/ \E count \in 0..MaxCount : ResizeAction(count) /\ UNCHANGED xvars
    \/ \E new_cap \in 0..MaxPtrs : ReserveAction(new_cap) /\ UNCHANGED xvars
    \/ \E t \in Threads : AcquireWaitUntimed(t) /\ UNCHANGED xvars
    \/ \E t \in Threads : AcquireWaitTimed(t) /\ UNCHANGED xvars
    \/ \E t \in Threads : SpuriousWake(t) /\ UNCHANGED xvars
    \/ \E t \in Threads : Expire(t) /\ UNCHANGED xvars
    \/ \E t \in Threads : Recheck(t) /\ UNCHANGED xvars
    \/ \E t \in Threads : NotifyReturn(t) /\ UNCHANGED xvars
    \/ \E h \in Handles : Destroy(h) /\ UNCHANGED xvars
    \/ \E h \in Handles : AssignNone(h) /\ UNCHANGED xvars
    \/ \E a, b \in Handles : MoveAssign(a, b) /\ UNCHANGED xvars
    \/ \E a, b \in Handles : MoveConstruct(a, b) /\ UNCHANGED xvars
    \/ \E h \in Handles : DefaultConstruct(h) /\ UNCHANGED xvars
    \/ CopyPool /\ UNCHANGED xvars
    \/ DropPool /\ UNCHANGED xvars

Spec == Init /\ [][Next]_vars

\* ---------------------------------------------------------------- claims
\* the objects lent to outstanding handles (lent_count)
LentCount == Cardinality(Owners)

\* C1 - Exclusivity: no two live acquisition handles own the same object at
\* the same time.
C1_Exclusivity ==
    \A obj \in Ptrs : Cardinality(OwnersOf(obj)) <= 1

\* C2 - Conservation: managed_count equals the number of free objects plus
\* the number of objects lent to outstanding handles.
C2_Conservation ==
    (impl_alive /\ ~crashed) =>
        ManagedCount(pool) = Size(pool) + LentCount

\* C3 - 0 <= size() <= managed_count <= capacity() in every reachable state.
C3_SizeManagedCapacity ==
    (impl_alive /\ ~crashed) =>
        /\ 0 <= Size(pool)
        /\ Size(pool) <= ManagedCount(pool)
        /\ ManagedCount(pool) <= Capacity(pool)

\* C10 - in_use() is true exactly when at least one object is lent to an
\* outstanding handle.
C10_InUseIffLent ==
    (impl_alive /\ ~crashed) => (InUse(pool) <=> LentCount > 0)

\* the acquire_wait of thread t is waiting on the condition variable
Waiting(t) == pc[t] \in {"blocked", "woken"}

\* the acquire_wait of thread t has unlocked the mutex and is about to return
Returning(t) == pc[t] = "notify"

\* C5 - a timed acquire_wait that saw a free object under the lock before its
\* deadline returns a handle bound to an object.
C5_TimedReturnsAvailable ==
    \A t \in Threads :
        (Returning(t) /\ timed[t] /\ avail[t]) => handles[t].m_is_initialized

\* C6 - a timed acquire_wait returns none only after its deadline has passed.
C6_NoneOnlyAfterTimeout ==
    \A t \in Threads :
        (Returning(t) /\ timed[t] /\ IsNone(handles[t])) => expired[t]

\* C7 - an untimed acquire_wait stays blocked while the free list is empty,
\* never returns none, and returns only with the object it popped from the
\* top of a non-empty free list.
C7_UntimedWaitsForObject ==
    [][\A t \in Threads :
          /\ (Waiting(t) /\ ~timed[t] /\ Empty(pool)) => Waiting(t)'
          /\ (~Returning(t) /\ Returning(t)' /\ ~timed'[t]) =>
                /\ ~Empty(pool)
                /\ handles'[t].m_is_initialized
                /\ ~IsNone(handles'[t])
                /\ handles'[t].m_obj = pool.m_free_objects[Size(pool)]
                /\ pool'.m_free_objects =
                       SubSeq(pool.m_free_objects, 1, Size(pool) - 1)]_vars

\* C7 witness: an untimed acquire_wait that blocked returns with an object
C7_Witness ==
    \E t \in Threads :
        Returning(t) /\ ~timed[t] /\ waited[t] /\ handles[t].m_is_initialized

\* C8 - every object handed to a handle goes through return_object exactly
\* once when the handle that owns it gives it up: the hand-outs not yet
\* returned are exactly the objects owned by a handle, whatever moves,
\* assignments of none, self-move-assignments and destructions happened.
C8_ReturnedExactlyOnce ==
    \A obj \in Ptrs : lent[obj] = Cardinality(OwnersOf(obj))

\* C8 witness: a handle was self-move-assigned (it is empty and still refers
\* to the pool), its object is back in the free list and nothing is lent
C8_Witness ==
    /\ \E h \in Handles :
          handles[h].live /\ ~handles[h].m_is_initialized /\ handles[h].m_pool
    /\ Size(pool) > 0
    /\ \A obj \in Ptrs : lent[obj] = 0

\* C9 - the pool core is destroyed when the last front-end handle is dropped,
\* also while acquisition handles are outstanding.
C9_CoreDiesWithLastFrontEnd ==
    frontends = 0 => ~impl_alive

\* ------------------------------------------------- blocking acquire_wait
\* One pool with its objects pre-constructed; threads call acquire, untimed
\* acquire_wait and push, and give up their handles.
InitBlocking == (\E n \in 1..MaxCount : InitWith(ImplCount(n, 0))) /\ InitExtra

NextBlocking ==
    \/ \E h \in Handles : Acquire(h) /\ UNCHANGED xvars
    \/ \E t \in Threads : AcquireWaitUntimed(t) /\ UNCHANGED xvars
    \/ \E t \in Threads : SpuriousWake(t) /\ UNCHANGED xvars
    \/ \E t \in Threads : Recheck(t) /\ UNCHANGED xvars
    \/ \E t \in Threads : NotifyReturn(t) /\ UNCHANGED xvars
    \/ \E h \in Handles : Destroy(h) /\ UNCHANGED xvars
    \/ \E h \in Handles : AssignNone(h) /\ UNCHANGED xvars
    \/ PushAction /\ UNCHANGED xvars

\* a thread that was woken, or that has its object, runs on
FairBlocking ==
    \A t \in Threads :
        /\ WF_vars(Recheck(t) /\ UNCHANGED xvars)
        /\ WF_vars(NotifyReturn(t) /\ UNCHANGED xvars)

SpecBlocking == InitBlocking /\ [][NextBlocking]_vars /\ FairBlocking

\* thread t has returned from acquire_wait with an object
ReturnedOwning(t) ==
    pc[t] = "idle" /\ handles[t].live /\ handles[t].m_is_initialized

\* C4 - Blocking correctness: an untimed acquire_wait does not return while
\* every object of the pool is held by other handles, and once an object is
\* dropped the waiter eventually returns owning an object, unless another
\* caller took the object first.
C4_BlockingCorrectness ==
    /\ [][\A t \in Threads :
             (Waiting(t) /\ Empty(pool)) => Waiting(t)']_vars
    /\ \A t \in Threads :
          (Waiting(t) /\ ~Empty(pool))
              ~> (ReturnedOwning(t) \/ (Waiting(t) /\ Empty(pool)))

\* C4 witness: the pool's only object was held by another handle, that handle
\* was dropped, and the waiter that blocked now has the object
C4_Witness ==
    \E t \in Threads :
        /\ Returning(t) /\ waited[t] /\ handles[t].m_is_initialized
        /\ ManagedCount(pool) = 1
        /\ \A h \in Handles \ {t} : ~handles[h].live

\* ------------------------------------------------------------------ swap
\* Two pools; threads call swap in both directions and on one pool twice,
\* while acquire, push and handle destruction go on on the first pool.  Those
\* take m_pool_mutex for their whole body, so they run when it is free.
InitSwap ==
    /\ \E p \in InitPools : \E n \in 0..MaxCount :
           /\ Allocations(p) + n <= MaxPtrs
           /\ InitCore(p, Allocations(p) + n)
           /\ other_pool = ImplCount(n, Allocations(p))
    /\ mutex = [c \in Cores |-> 0]
    /\ swpc = [t \in Threads |-> "idle"]
    /\ swarg = [t \in Threads |-> <<This, This>>]
    /\ snap = NoSnap
    /\ slots = 0
    /\ InitHandleHist

NextSwap ==
    \/ \E t \in Threads : \E a, b \in Cores : SwapLockThis(t, a, b)
    \/ \E t \in Threads : SwapLockOther(t)
    \/ \E t \in Threads : SwapSelfLock(t)
    \/ \E h \in Handles : mutex[This] = 0 /\ Acquire(h) /\ UNCHANGED xvars
    \/ mutex[This] = 0 /\ PushAction /\ UNCHANGED xvars
    \/ \E h \in Handles :
          /\ Released(h) = NULL \/ mutex[This] = 0
          /\ Destroy(h) /\ UNCHANGED xvars

SpecSwap == InitSwap /\ [][NextSwap]_vars

\* the thread whose lock the swap of thread t waits for, 0 if it waits for none
WaitsOn(t) ==
    IF swpc[t] = "locked_this" /\ swarg[t][1] # swarg[t][2]
        THEN mutex[swarg[t][2]]
        ELSE 0

\* the swap of thread t can never return: it hangs on its own mutex, or it
\* waits for a mutex whose holder waits for the mutex t holds
Deadlocked(t) ==
    \/ swpc[t] = "hung"
    \/ WaitsOn(t) # 0 /\ WaitsOn(WaitsOn(t)) = t

\* C11 - only acquire_wait can suspend its caller: no call of swap (nor of
\* any other operation than acquire_wait) waits for anything but a bounded
\* critical section, so no swap is ever deadlocked, swap(a, b) racing with
\* swap(b, a) and swap between two front-end handles of one core included.
C11_OnlyAcquireWaitSuspends ==
    \A t \in Threads : ~Deadlocked(t)

\* ----------------------------------------------------- acquire, allocate
\* the step hands the top of a non-empty free list to the variable h: h is
\* bound to that object and to the pool, size() decreases by one,
\* managed_count and capacity() stay
TopHandedTo(h) ==
    /\ ~IsNone(handles'[h])
    /\ handles'[h].m_is_initialized /\ handles'[h].m_pool
    /\ handles'[h].m_obj = pool.m_free_objects[Size(pool)]
    /\ pool'.m_free_objects = SubSeq(pool.m_free_objects, 1, Size(pool) - 1)
    /\ Size(pool') = Size(pool) - 1
    /\ ManagedCount(pool') = ManagedCount(pool)
    /\ Capacity(pool') = Capacity(pool)
    /\ pool'.m_allocated_space = pool.m_allocated_space

\* C12 - acquire() returns the none handle exactly when the free list is
\* empty at the time of the call (and then changes nothing in the pool);
\* otherwise it returns a handle bound to the object popped from the top of
\* the free list, size() decreases by one, managed_count and capacity() stay.
C12_Acquire ==
    [][\A h \in Handles :
          Acquire(h) =>
              /\ handles'[h].live
              /\ IsNone(handles'[h]) <=> Empty(pool)
              /\ Empty(pool) => pool' = pool
              /\ ~Empty(pool) => TopHandedTo(h)]_vars

\* C12 witness: the first call on a pool constructed with count objects was
\* an acquire: one object is lent once and the others are free
C12_Witness ==
    /\ ops = 1 /\ pool.m_allocated_space = <<>>
    /\ Size(pool) = ManagedCount(pool) - 1
    /\ \E h \in Handles :
          /\ handles[h].live /\ handles[h].m_is_initialized
          /\ lent[handles[h].m_obj] = 1
          /\ \A t \in Threads : pc[t] = "idle"

\* C13 - allocate never returns the none handle: with a non-empty free list
\* it behaves like acquire; with an empty free list it constructs a new
\* object outside the uninitialized-slot stack, increments managed_count by
\* exactly one and leaves capacity(), size() and the slot stack unchanged
\* (the object is a fresh allocation of the allocator, not a slot of the stack).
C13_Allocate ==
    [][\A h \in Handles :
          Allocate(h) =>
              /\ handles'[h].live /\ ~IsNone(handles'[h])
              /\ ~Empty(pool) => TopHandedTo(h)
              /\ Empty(pool) =>
                    /\ handles'[h].m_is_initialized /\ handles'[h].m_pool
                    /\ handles'[h].m_obj = Fresh(heap, 1)[1]
                    /\ heap' = heap + 1
                    /\ ManagedCount(pool') = ManagedCount(pool) + 1
                    /\ Capacity(pool') = Capacity(pool)
                    /\ Size(pool') = Size(pool)
                    /\ pool'.m_allocated_space = pool.m_allocated_space]_vars

\* C13 witness: allocate on a pool constructed with no objects made an
\* object of its own: managed_count is 1 and capacity() is 0
C13_Witness ==
    /\ ops = 1 /\ ManagedCount(pool) = 1 /\ Capacity(pool) = 0
    /\ \E h \in Handles :
          handles[h].live /\ handles[h].m_is_initialized /\ handles[h].m_obj = heap

\* ------------------------------------------------------------ round trip
\* One pool, constructed with or without a count; the program calls acquire,
\* allocate, push, resize and reserve, moves handles and gives them up.  snap
\* records the constructor's count, what the pool reported before the last
\* successful acquire, whether the handle that acquire returned has been
\* destructed with no other call in between, and whether these were the
\* first calls made on the pool (fresh).
Constructed(count) == [NoSnap EXCEPT !.stage = "constructed", !.count = count]

\* the history after a call that is neither of the two below
Elsewhere == [snap EXCEPT !.stage = "other", !.fresh = FALSE]

\* the history after acquire() returned into h
AfterAcquire(h) ==
    IF Empty(pool) THEN Elsewhere
    ELSE [snap EXCEPT !.stage = "acquired",
                      !.fresh = (snap.stage = "constructed"),
                      !.h = h,
                      !.size = Size(pool),
                      !.managed_count = ManagedCount(pool),
                      !.capacity = Capacity(pool)]

\* the history after the destruction of h
AfterDestroy(h) ==
    IF snap.stage = "acquired" /\ snap.h = h
        THEN [snap EXCEPT !.stage = "dropped"]
        ELSE Elsewhere

InitRoundTrip ==
    /\ \/ InitWith(ImplDefault(0)) /\ snap = Constructed(NoCount)
       \/ \E n \in 0..MaxCount :
              InitWith(ImplCount(n, 0)) /\ snap = Constructed(n)
    /\ InitNoSwap
    /\ slots = 0
    /\ InitHandleHist

NextRoundTrip ==
    \/ \E h \in Handles :
          Acquire(h) /\ snap' = AfterAcquire(h) /\ UNCHANGED <<swapvars, slots, handlehist>>
    \/ \E h \in Handles :
          Destroy(h) /\ snap' = AfterDestroy(h) /\ UNCHANGED <<swapvars, slots, handlehist>>
    \/ \E h \in Handles :
          Allocate(h) /\ snap' = Elsewhere /\ UNCHANGED <<swapvars, slots, handlehist>>
    \/ PushAction /\ snap' = Elsewhere /\ UNCHANGED <<swapvars, slots, handlehist>>
    \/ \E count \in 0..MaxCount :
          ResizeAction(count) /\ snap' = Elsewhere /\ UNCHANGED <<swapvars, slots, handlehist>>
    \/ \E new_cap \in 0..MaxPtrs :
          ReserveAction(new_cap) /\ snap' = Elsewhere /\ UNCHANGED <<swapvars, slots, handlehist>>
    \/ \E h \in Handles :
          AssignNone(h) /\ snap' = Elsewhere /\ UNCHANGED <<swapvars, slots, handlehist>>
    \/ \E a, b \in Handles :
          MoveAssign(a, b) /\ snap' = Elsewhere /\ UNCHANGED <<swapvars, slots, handlehist>>
    \/ \E a, b \in Handles :
          MoveConstruct(a, b) /\ snap' = Elsewhere /\ UNCHANGED <<swapvars, slots, handlehist>>

SpecRoundTrip == InitRoundTrip /\ [][NextRoundTrip]_vars

\* C14 - round trip: from any pool state, a successful acquire() followed by
\* dropping the returned handle, with no other operation in between, restores
\* size() to its value before the acquire and leaves managed_count and
\* capacity() unchanged.
C14_RoundTrip ==
    snap.stage = "dropped" =>
        /\ Size(pool) = snap.size
        /\ ManagedCount(pool) = snap.managed_count
        /\ Capacity(pool) = snap.capacity

\* C14 witness: a round trip was made on a pool that had been through other
\* calls, one of them a slot-stack underflow, and that has an object lent
C14_Witness ==
    snap.stage = "dropped" /\ ~snap.fresh /\ ub /\ LentCount > 0

\* C18 - a pool constructed with count n starts with size() == n,
\* capacity() == n, managed_count == n and in_use() == false; for n >= 1,
\* after one acquire() size() == n-1 and in_use() == true, and dropping that
\* handle restores size() == n and in_use() == false.
C18_CountConstructed ==
    snap.count # NoCount =>
        /\ snap.stage = "constructed" =>
              /\ Size(pool) = snap.count
              /\ Capacity(pool) = snap.count
              /\ ManagedCount(pool) = snap.count
              /\ ~InUse(pool)
        /\ (snap.stage = "acquired" /\ snap.fresh) =>
              /\ snap.count >= 1
              /\ Size(pool) = snap.count - 1
              /\ InUse(pool)
        /\ (snap.stage = "dropped" /\ snap.fresh) =>
              /\ Size(pool) = snap.count
              /\ ~InUse(pool)

\* C18 witness: the pool was constructed with the largest count, its first
\* call was an acquire and its second the destruction of that handle
C18_Witness ==
    snap.stage = "dropped" /\ snap.fresh /\ snap.count = MaxCount /\ ops = 2

\* ---------------------------------------------------------- push, resize
\* the last n elements of the stack st, the top first
RECURSIVE TopDown(_, _)
TopDown(st, n) ==
    IF n = 0 THEN <<>>
    ELSE <<st[Len(st)]>> \o TopDown(SubSeq(st, 1, Len(st) - 1), n - 1)

\* C15 - growth: push and emplace double capacity() exactly when
\* managed_count == capacity() at the time of the call and otherwise leave
\* capacity() unchanged, and always add one free object (so five pushes on a
\* default-constructed pool end with capacity() == 8 and size() == 5).
C15_Growth ==
    [][PushAction =>
          /\ Capacity(pool') = IF ManagedCount(pool) = Capacity(pool)
                                  THEN 2 * Capacity(pool)
                                  ELSE Capacity(pool)
          /\ Size(pool') = Size(pool) + 1]_vars

\* C16 - resize(count) and resize(count, value) always leave exactly count
\* free objects, whether growing or shrinking and whatever number of objects
\* is lent; when growing, the arena is first grown to count if count exceeds
\* capacity() and the new objects are constructed in slots taken from the
\* uninitialized stack.
C16_ResizeLeavesCount ==
    [][\A count \in 0..MaxCount :
          ResizeAction(count) =>
              /\ Size(pool') = count
              /\ count > Size(pool) =>
                    /\ Capacity(pool') =
                           IF count > Capacity(pool) THEN count ELSE Capacity(pool)
                    /\ count - Size(pool) <=
                           Len(ResizeGrown(pool, heap, count).m_allocated_space)
                    /\ SubSeq(pool'.m_free_objects, Size(pool) + 1, count) =
                           TopDown(ResizeGrown(pool, heap, count).m_allocated_space,
                                   count - Size(pool))]_vars

\* C17 - shrink: resize(count) with count < size() destructs exactly
\* size() - count free objects, moves their slots to the uninitialized-slot
\* stack, leaves capacity() unchanged and never destructs or moves an object
\* that is currently lent.
C17_Shrink ==
    [][\A count \in 0..MaxCount :
          (ResizeAction(count) /\ count < Size(pool)) =>
              /\ pool'.m_free_objects = SubSeq(pool.m_free_objects, 1, count)
              /\ pool'.m_allocated_space =
                     pool.m_allocated_space \o
                         TopDown(pool.m_free_objects, Size(pool) - count)
              /\ Capacity(pool') = Capacity(pool)
              /\ \A i \in count + 1..Size(pool) :
                     OwnersOf(pool.m_free_objects[i]) = {}]_vars

\* ------------------------------------------------------ allocator failure
\* m_allocator.allocate(1) may throw at any call; an allocation that would
\* be the (MaxPtrs + 1)-th always does.  The exception leaves the member
\* function through its lock_guard; no statement after the call is executed.

\* a call that threw in reallocate after k slots: what it leaves behind
Thrown(k) ==
    /\ heap + k <= MaxPtrs
    /\ pool' = ReallocateThrows(pool, heap, k)
    /\ heap' = heap + k
    /\ slots' = slots + k
    /\ UNCHANGED <<corevars, handles, pc, waitvars, ubvars, lent, swapvars, snap,
                   handlehist>>

\* impl::reserve, the (k+1)-th allocate(1) of its loop throws
ReserveThrows(new_cap, k) ==
    /\ Callable
    /\ k < ReallocateCalls(pool, new_cap)
    /\ Thrown(k)

\* impl::push / impl::emplace, the (k+1)-th allocate(1) of reallocate throws
PushThrows(k) ==
    /\ Callable
    /\ ManagedCount(pool) = Capacity(pool)
    /\ k < ReallocateCalls(pool, Capacity(pool) * 2)
    /\ Thrown(k)

\* impl::resize, the (k+1)-th allocate(1) of reallocate throws
ResizeThrows(count, k) ==
    /\ Callable
    /\ count > Size(pool) /\ count > Capacity(pool)
    /\ k < ReallocateCalls(pool, count)
    /\ Thrown(k)

\* impl::allocate on an empty free list, its allocate(1) throws: no handle
\* is returned into h
AllocateThrows(h) ==
    /\ Callable /\ ~handles[h].live /\ Usable(h)
    /\ Empty(pool)
    /\ Thrown(0)

\* a call ends with the allocator's exception
Throws ==
    \/ \E new_cap \in 0..MaxPtrs : \E k \in 0..MaxPtrs : ReserveThrows(new_cap, k)
    \/ \E k \in 0..MaxPtrs : PushThrows(k)
    \/ \E count \in 0..MaxCount : \E k \in 0..MaxPtrs : ResizeThrows(count, k)
    \/ \E h \in Handles : AllocateThrows(h)

\* the calls that grow the pool, with the slots they get counted
InitAllocFail ==
    /\ \E p \in InitPools : InitWith(p) /\ slots = Allocations(p)
    /\ InitNoSwap
    /\ snap = NoSnap
    /\ InitHandleHist

\* the slots a step of reserve, push or resize got: all its allocations
Counted ==
    slots' = slots + (heap' - heap) /\ UNCHANGED <<swapvars, snap, handlehist>>

NextAllocFail ==
    \/ \E new_cap \in 0..MaxPtrs : \E k \in 0..MaxPtrs : ReserveThrows(new_cap, k)
    \/ \E k \in 0..MaxPtrs : PushThrows(k)
    \/ \E count \in 0..MaxCount : \E k \in 0..MaxPtrs : ResizeThrows(count, k)
    \/ \E h \in Handles : AllocateThrows(h)
    \/ \E new_cap \in 0..MaxPtrs : ReserveAction(new_cap) /\ Counted
    \/ PushAction /\ Counted
    \/ \E count \in 0..MaxCount : ResizeAction(count) /\ Counted
    \/ \E h \in Handles : Allocate(h) /\ UNCHANGED xvars
    \/ \E h \in Handles : Acquire(h) /\ UNCHANGED xvars
    \/ \E h \in Handles : Destroy(h) /\ UNCHANGED xvars

SpecAllocFail == InitAllocFail /\ [][NextAllocFail]_vars

\* C19 - if the allocator fails partway through the growth triggered by
\* reserve, push, emplace, resize or allocate's overflow path, the failure
\* propagates to the caller (no handle is returned, no object is added) and
\* the pool stays consistent: size(), managed_count and capacity() are what
\* they were before the call, and capacity() never counts a slot that was
\* not actually allocated.
C19_AllocatorFailure ==
    /\ [](Capacity(pool) <= slots)
    /\ [][Throws =>
             /\ Size(pool') = Size(pool)
             /\ ManagedCount(pool') = ManagedCount(pool)
             /\ Capacity(pool') = Capacity(pool)
             /\ pool'.m_free_objects = pool.m_free_objects
             /\ handles' = handles]_vars

\* C19 witness: a growth failed after it had got a slot, which the pool
\* keeps without counting it in capacity()
C19_Witness ==
    /\ Capacity(pool) < slots
    /\ Len(pool.m_allocated_space) > Capacity(pool) - ManagedCount(pool)
    /\ ~ub

\* ------------------------------------------------ acquisition handle states
\* The handle's states are Empty and Owning.  owned follows the calls made
\* on each acquired_object variable: a call that returns a handle gives the
\* variable the object handed out in that call, if any; a move gives the
\* destination what the source owned and leaves the source with nothing; an
\* assignment of none, a destruction, a default construction and a
\* self-move-assignment leave the variable with nothing.
HandedThisStep == {obj \in Ptrs : lent'[obj] > lent[obj]}

GivenTo(h) ==
    owned' = [owned EXCEPT ![h] = IF HandedThisStep = {} THEN NULL
                                  ELSE CHOOSE obj \in HandedThisStep : TRUE]

GaveUp(h) == owned' = [owned EXCEPT ![h] = NULL]

MovedTo(a, b) == owned' = [[owned EXCEPT ![a] = owned[b]] EXCEPT ![b] = NULL]

\* the variable h is in the state Empty
EmptyState(h) == owned[h] = NULL

\* *h or h->: a call on the acquired_object alone
Dereference(h) ==
    /\ Call /\ handles[h].live /\ Usable(h)
    /\ result' = [empty |-> EmptyState(h), value |-> Deref(handles[h])]
    /\ UNCHANGED <<pool, corevars, heap, handles, pc, waitvars, ubvars, lent,
                   swapvars, snap, slots, owned>>

\* what the calls below leave alone
HandleFrame == UNCHANGED <<swapvars, snap, slots, result>>

InitHandles ==
    /\ \E p \in InitPools : InitWith(p)
    /\ InitNoSwap
    /\ snap = NoSnap
    /\ slots = 0
    /\ InitHandleHist

NextHandles ==
    \/ \E h \in Handles : Acquire(h) /\ GivenTo(h) /\ HandleFrame
    \/ \E h \in Handles : Allocate(h) /\ GivenTo(h) /\ HandleFrame
    \/ \E t \in Threads : AcquireWaitUntimed(t) /\ GivenTo(t) /\ HandleFrame
    \/ \E t \in Threads : AcquireWaitTimed(t) /\ GivenTo(t) /\ HandleFrame
    \/ \E t \in Threads : Expire(t) /\ owned' = owned /\ HandleFrame
    \/ \E t \in Threads : Recheck(t) /\ GivenTo(t) /\ HandleFrame
    \/ \E t \in Threads : NotifyReturn(t) /\ owned' = owned /\ HandleFrame
    \/ \E h \in Handles : Destroy(h) /\ GaveUp(h) /\ HandleFrame
    \/ \E h \in Handles : AssignNone(h) /\ GaveUp(h) /\ HandleFrame
    \/ \E a, b \in Handles : MoveAssign(a, b) /\ MovedTo(a, b) /\ HandleFrame
    \/ \E a, b \in Handles : MoveConstruct(a, b) /\ MovedTo(a, b) /\ HandleFrame
    \/ \E h \in Handles : DefaultConstruct(h) /\ GaveUp(h) /\ HandleFrame
    \/ \E h \in Handles : Dereference(h)
    \/ PushAction /\ owned' = owned /\ HandleFrame

SpecHandles == InitHandles /\ [][NextHandles]_vars

\* C20 - dereferencing (operator* or operator->) an Empty acquisition handle
\* (default-constructed, none, moved-from, or obtained from a failed acquire)
\* always signals an error to the caller and never yields an object; the pool
\* state is left unchanged, and the handle compares equal to none exactly when
\* it is Empty.
C20_EmptyDereference ==
    /\ [](result.empty => result.value = LogicError)
    /\ [](\A h \in Handles :
             handles[h].live => (IsNone(handles[h]) <=> EmptyState(h)))
    /\ [][\A h \in Handles :
             Dereference(h) => (pool' = pool /\ handles' = handles)]_vars

\* C20 witness: a handle that was moved from (it held an object that another
\* variable now owns) was dereferenced and the caller got the exception
C20_Witness ==
    /\ result.empty /\ result.value = LogicError
    /\ \E a, b \in Handles :
          /\ handles[a].live /\ handles[a].m_obj = NULL /\ EmptyState(a)
          /\ handles[b].live /\ ~EmptyState(b) /\ ops = 3

\* ---------------------------------------------------------------- reserve
\* C21 - reserve(new_cap) with new_cap > capacity() adds exactly
\* new_cap - capacity() uninitialized slots and sets capacity() to new_cap;
\* with new_cap <= capacity() it changes nothing; in both cases size(),
\* managed_count and the set of lent objects are unchanged.
C21_Reserve ==
    [][\A new_cap \in 0..MaxPtrs :
          ReserveAction(new_cap) =>
              /\ new_cap > Capacity(pool) =>
                    /\ Capacity(pool') = new_cap
                    /\ pool'.m_allocated_space =
                           pool.m_allocated_space \o
                               Fresh(heap, new_cap - Capacity(pool))
                    /\ heap' = heap + (new_cap - Capacity(pool))
              /\ new_cap <= Capacity(pool) => (pool' = pool /\ heap' = heap)
              /\ Size(pool') = Size(pool)
              /\ pool'.m_free_objects = pool.m_free_objects
              /\ ManagedCount(pool') = ManagedCount(pool)
              /\ handles' = handles /\ lent' = lent]_vars

\* C21 witness: the first call on a pool constructed with count objects was
\* a reserve that grew it: the objects are free and there are
\* capacity() - count slots
C21_Witness ==
    /\ ops = 1 /\ snap.count >= 1
    /\ Size(pool) = snap.count /\ ManagedCount(pool) = snap.count
    /\ Capacity(pool) > snap.count
    /\ Len(pool.m_allocated_space) = Capacity(pool) - snap.count

\* ------------------------------------------------- uninitialized-slot stack
\* C22 - push, emplace and resize never take a slot from an empty
\* uninitialized-slot stack: after any sequence of pool operations, whenever
\* one of them pops a slot the stack is non-empty.
C22_NoSlotUnderflow ==
    [][/\ PushAction => ~PushUnderflows(pool, heap)
       /\ \A count \in 0..MaxCount :
             ResizeAction(count) => ~ResizeUnderflows(pool, heap, count)]_vars

\* ------------------------------------------------------ condition variable
\* C23 - the condition variable is signaled whenever an object becomes free:
\* every operation that adds an object to the free list (push, emplace,
\* return_object and a growing resize) notifies a waiter, so a thread blocked
\* in acquire_wait is woken by the step that adds the object.
C23_SignaledOnFree ==
    [][(Size(pool') > Size(pool) /\ Blocked # {}) =>
          \E t \in Blocked : pc'[t] = "woken"]_vars

\* ---------------------------------------------------------- slot accounting
\* C24 - slot accounting: in every reachable state capacity() equals the
\* total number of allocated slots, i.e. free objects + lent objects +
\* uninitialized slots.
C24_SlotAccounting ==
    (impl_alive /\ ~crashed) =>
        Capacity(pool) = Size(pool) + LentCount + Len(pool.m_allocated_space)

\* ------------------------------------------------------------ wake-ups
\* Threads use only acquire, acquire_wait (untimed and timed), push / emplace
\* and handle destruction, on a pool constructed in any way.  A woken waiter
\* runs on, a finished acquire_wait returns, a deadline passes, and a handle
\* that holds an object is destructed as long as the program makes calls.
NextWakeup ==
    \/ \E h \in Handles : Acquire(h) /\ UNCHANGED xvars
    \/ \E t \in Threads : AcquireWaitUntimed(t) /\ UNCHANGED xvars
    \/ \E t \in Threads : AcquireWaitTimed(t) /\ UNCHANGED xvars
    \/ \E t \in Threads : SpuriousWake(t) /\ UNCHANGED xvars
    \/ \E t \in Threads : Expire(t) /\ UNCHANGED xvars
    \/ \E t \in Threads : Recheck(t) /\ UNCHANGED xvars
    \/ \E t \in Threads : NotifyReturn(t) /\ UNCHANGED xvars
    \/ \E h \in Handles : Destroy(h) /\ UNCHANGED xvars
    \/ PushAction /\ UNCHANGED xvars

FairWakeup ==
    /\ \A t \in Threads :
          /\ WF_vars(Recheck(t) /\ UNCHANGED xvars)
          /\ WF_vars(NotifyReturn(t) /\ UNCHANGED xvars)
          /\ WF_vars(Expire(t) /\ UNCHANGED xvars)
    /\ \A h \in Handles : WF_vars(Destroy(h) /\ UNCHANGED xvars)

SpecWakeup == Init /\ [][NextWakeup]_vars /\ FairWakeup

\* no object can become free any more: the free list is empty and the
\* program has made its last call, so what is lent is never dropped
NothingToCome == ops = MaxOps /\ Empty(pool)

\* C25 - no lost wake-up: every pending untimed acquire_wait on a pool with at
\* least one managed object eventually returns owning an object, whatever
\* the number of simultaneous waiters, as long as objects keep being pushed
\* or dropped.
\* A process that the undefined behaviour of push has ended has no pending
\* call left.
C25_NoLostWakeup ==
    \A t \in Threads :
        (Waiting(t) /\ ~timed[t] /\ ManagedCount(pool) >= 1 /\ ~crashed)
            ~> (ReturnedOwning(t) \/ NothingToCome \/ crashed)

\* C25 witness: two untimed waiters were blocked at once on a pool without
\* undefined behaviour; an object arrived, one waiter was woken and returns
\* with it, about to notify the other, which is still blocked
C25_Witness ==
    \E t \in Threads :
        /\ Returning(t) /\ ~timed[t] /\ waited[t] /\ handles[t].m_is_initialized
        /\ ManagedCount(pool) >= 1 /\ ~ub /\ ~crashed
        /\ \E u \in Threads \ {t} : pc[u] = "blocked" /\ ~timed[u] /\ waited[u]

\* ------------------------------------------------------- swap, the slots
\* the pool p holds exactly capacity() - managed_count uninitialized slots
SlotsMatch(p) == Len(p.m_allocated_space) = Capacity(p) - ManagedCount(p)

\* C26 - swap(a, b) between two distinct pools leaves both pools usable:
\* size(), capacity() and managed_count of the two pools are exchanged, and
\* if each pool held exactly capacity() - managed_count uninitialized slots
\* before the swap, each does after it, so that a following push or emplace
\* on either pool finds a slot.
C26_SwapKeepsSlots ==
    [][\A t \in Threads : SwapLockOther(t) =>
          /\ Size(pool') = Size(other_pool) /\ Size(other_pool') = Size(pool)
          /\ Capacity(pool') = Capacity(other_pool)
          /\ Capacity(other_pool') = Capacity(pool)
          /\ ManagedCount(pool') = ManagedCount(other_pool)
          /\ ManagedCount(other_pool') = ManagedCount(pool)
          /\ (SlotsMatch(pool) /\ SlotsMatch(other_pool)) =>
                 (SlotsMatch(pool') /\ SlotsMatch(other_pool'))
          /\ (/\ SlotsMatch(pool) /\ SlotsMatch(other_pool)
              /\ ~PushUnderflows(pool, heap)
              /\ ~PushUnderflows(other_pool, heap)) =>
                 /\ ~PushUnderflows(pool', heap')
                 /\ ~PushUnderflows(other_pool', heap')]_vars

====
